---- MODULE Spec2Model ----
(***************************************************************************)
(* Risk dice battle: the battle engine of dkmaker/risk.                    *)
(*                                                                         *)
(*   BattleService (src/src/services/BattleService.ts): dice rolling,      *)
(*     pairwise comparison, executeBattleRound, simulateCompleteBattle.    *)
(*   GameService (src/src/services/GameService.ts): the engagement state   *)
(*     (players, screen, attacker, defender) and its public methods.       *)
(*                                                                         *)
(*   The Preact application (src/src/App.tsx, components/ArmySelection.tsx, *)
(*     unnamed/part_006 BattleScreen, unnamed/part_011 useBattleLogic):    *)
(*     the handlers that drive the gameService singleton, and the async    *)
(*     rollDice whose steps run from timers.                               *)
(*                                                                         *)
(* The two singletons share no state: BattleService has no fields and      *)
(* GameService never calls it.  JavaScript runs every call to completion,  *)
(* so a behaviour is a sequence of calls on GameService, or one call of a   *)
(* BattleService method (the service is stateless: a second call sees      *)
(* nothing of the first), or a run of the application, a sequence of its   *)
(* handlers and timer callbacks; `service` says which of these a behaviour *)
(* is.                                                                     *)
(***************************************************************************)
EXTENDS Integers, Sequences, FiniteSets, TLC

VARIABLES
  service,                \* "GameService" | "BattleService" | "App": who acts in this behaviour
  \* ---- GameService.state (GameService.ts:17-23)
  players, currentScreen, attacker, defender, isGameActive,
  \* ---- the frame of BattleService.simulateCompleteBattle (BattleService.ts:123-152)
  pc,                     \* "idle" | "loop" | "returned"
  initialAttackerArmies, initialDefenderArmies,
  attackerArmies, defenderArmies,
  numRounds,              \* rounds.length
  roundLosses,            \* the losses of the round pushed last, Null before it
  winner,                 \* the winner it returned, "none" before it returns
  \* ---- the latest call, as its caller sees it
  call,                   \* [op, args, thrown, rolls]
  result,                 \* what a caller's executeBattleRound returned, Null if nothing
  \* ---- the Preact application (App.tsx, ArmySelection.tsx, BattleScreen, useBattleLogic)
  page,                   \* ArmySelection: the page of the button grid
  battleState,            \* useBattleLogic: [isRolling, animationPhase] of the mounted screen
  showWithdrawConfirmation, \* BattleScreen: the withdraw button asks for confirmation
  liveTask,               \* the rollDice call in flight on the mounted BattleScreen, or Null
  staleTask               \* a rollDice call in flight whose BattleScreen was unmounted, or Null

gsVars == <<players, currentScreen, attacker, defender, isGameActive>>
simVars == <<pc, initialAttackerArmies, initialDefenderArmies,
             attackerArmies, defenderArmies, numRounds, roundLosses, winner>>
appVars == <<page, battleState, showWithdrawConfirmation, liveTask, staleTask>>
vars == <<service, gsVars, simVars, call, result, appVars>>

----------------------------------------------------------------------------
(* Bounds of the model *)

MaxPlayers == 2   \* longest roster handed to initializeGame
MaxCount   == 2   \* largest of the small army counts handed to set*Armies
MaxLost    == 2   \* armies a side may lose through updateArmyCounts in the model
MaxArmies  == 5   \* largest army count handed to BattleService
MaxDice    == 4   \* largest count handed to rollDice

(* Program constants *)

DieSides        == 6    \* BattleService.ts:23
AttackerDiceCap == 3    \* BattleService.ts:42
DefenderDiceCap == 2    \* BattleService.ts:50
LastPage        == 4    \* ArmySelection.tsx:31
FirstPageCount  == 9    \* ArmySelection.tsx:66
PageStride      == 9    \* ArmySelection.tsx:86
OtherPageCount  == 8    \* ArmySelection.tsx:88
LastPageCount   == 9    \* ArmySelection.tsx:88
MinPlayers      == 2    \* GameService.ts:54
MinArmyCount    == 1    \* GameService.ts:137
MaxArmyCount    == 50   \* GameService.ts:137

Null == [null |-> TRUE]      \* JavaScript null / no value
NoError == "none"

Min(a, b) == IF a < b THEN a ELSE b     \* Math.min

----------------------------------------------------------------------------
(* BattleService: dice *)

\* Mutant of rollDie: the "+ 1" is missing.
rollDie_ZeroBased == 0..(DieSides - 1)

\* rollDie (BattleService.ts:22-24): Math.floor(Math.random() * 6) + 1
rollDie == 1..DieSides

\* Array.prototype.sort((a, b) => b - a): insertion of x into a descending sequence
RECURSIVE insertDescending(_, _)
insertDescending(x, s) ==
  IF s = <<>> THEN <<x>>
  ELSE IF x >= Head(s) THEN <<x>> \o s
  ELSE <<Head(s)>> \o insertDescending(x, Tail(s))

\* Mutant of sortDescending: the dice are returned in the order they were pushed.
sortDescending_Unsorted(s) == s

RECURSIVE sortDescending(_)
sortDescending(s) ==
  IF s = <<>> THEN <<>> ELSE insertDescending(Head(s), sortDescending(Tail(s)))

\* rollDice (BattleService.ts:29-35): every roll `count` pushes of rollDie can give,
\* sorted descending; a count below 1 skips the loop and returns [].
rollDice(count) ==
  { sortDescending(dice) : dice \in [1..count -> rollDie] }

\* Mutants of getAttackerDiceCount: always the cap; one army held back.
getAttackerDiceCount_AlwaysCap(armies) == AttackerDiceCap
getAttackerDiceCount_ReserveOne(armies) == Min(armies - 1, AttackerDiceCap)

\* getAttackerDiceCount (BattleService.ts:41-43)
getAttackerDiceCount(armies) == Min(armies, AttackerDiceCap)

\* getDefenderDiceCount (BattleService.ts:49-51)
getDefenderDiceCount(armies) == Min(armies, DefenderDiceCap)

----------------------------------------------------------------------------
(* BattleService: comparison *)

\* Mutant of pairWinner: the attacker wins ties.
pairWinner_TieToAttacker(attackerDie, defenderDie) ==
  IF attackerDie >= defenderDie THEN "attacker" ELSE "defender"

\* BattleService.ts:75
pairWinner(attackerDie, defenderDie) ==
  IF attackerDie > defenderDie THEN "attacker" ELSE "defender"

\* Mutant of compareStep: a tie costs nobody an army.
compareStep_TieNoLoss(acc, i) ==
  LET attackerDie == acc.attackerDice[i]
      defenderDie == acc.defenderDice[i]
      w == pairWinner(attackerDie, defenderDie)
  IN [acc EXCEPT
        !.comparisons = Append(@, [attackerDie |-> attackerDie,
                                   defenderDie |-> defenderDie,
                                   winner |-> w]),
        !.defenderLosses = IF attackerDie > defenderDie THEN @ + 1 ELSE @,
        !.attackerLosses = IF attackerDie < defenderDie THEN @ + 1 ELSE @]

\* Mutant of compareStep: a tie costs each side an army.
compareStep_TieBothLose(acc, i) ==
  LET attackerDie == acc.attackerDice[i]
      defenderDie == acc.defenderDice[i]
      w == pairWinner(attackerDie, defenderDie)
  IN [acc EXCEPT
        !.comparisons = Append(@, [attackerDie |-> attackerDie,
                                   defenderDie |-> defenderDie,
                                   winner |-> w]),
        !.defenderLosses = IF attackerDie >= defenderDie THEN @ + 1 ELSE @,
        !.attackerLosses = IF attackerDie <= defenderDie THEN @ + 1 ELSE @]

\* Mutant of compareStep: the annotation of a pair names the side that lost it.
compareStep_AnnotatesLoser(acc, i) ==
  LET attackerDie == acc.attackerDice[i]
      defenderDie == acc.defenderDice[i]
      w == pairWinner(attackerDie, defenderDie)
  IN [acc EXCEPT
        !.comparisons = Append(@, [attackerDie |-> attackerDie,
                                   defenderDie |-> defenderDie,
                                   winner |-> IF w = "attacker" THEN "defender"
                                              ELSE "attacker"]),
        !.defenderLosses = IF w = "attacker" THEN @ + 1 ELSE @,
        !.attackerLosses = IF w = "attacker" THEN @ ELSE @ + 1]

\* One pass of the loop body (BattleService.ts:72-88) for index i (1-based here).
compareStep(acc, i) ==
  LET attackerDie == acc.attackerDice[i]
      defenderDie == acc.defenderDice[i]
      w == pairWinner(attackerDie, defenderDie)
  IN [acc EXCEPT
        !.comparisons = Append(@, [attackerDie |-> attackerDie,
                                   defenderDie |-> defenderDie,
                                   winner |-> w]),
        !.defenderLosses = IF w = "attacker" THEN @ + 1 ELSE @,
        !.attackerLosses = IF w = "attacker" THEN @ ELSE @ + 1]

RECURSIVE compareLoop(_, _, _)
compareLoop(acc, i, comparisonCount) ==
  IF i > comparisonCount THEN acc
  ELSE compareLoop(compareStep(acc, i), i + 1, comparisonCount)

\* Mutant of compareDice: only the highest pair is compared.
compareDice_FirstPairOnly(attackerDice, defenderDice) ==
  compareLoop([attackerDice |-> attackerDice,
               defenderDice |-> defenderDice,
               attackerLosses |-> 0,
               defenderLosses |-> 0,
               comparisons |-> <<>>],
              1, Min(1, Min(Len(attackerDice), Len(defenderDice))))

\* Mutant of compareDice: the lowest dice of the two rolls are compared.
compareDice_LowestDice(attackerDice, defenderDice) ==
  LET comparisonCount == Min(Len(attackerDice), Len(defenderDice))
      lowest(dice) == SubSeq(dice, Len(dice) - comparisonCount + 1, Len(dice))
      compared == compareLoop([attackerDice |-> lowest(attackerDice),
                               defenderDice |-> lowest(defenderDice),
                               attackerLosses |-> 0,
                               defenderLosses |-> 0,
                               comparisons |-> <<>>],
                              1, comparisonCount)
  IN [compared EXCEPT !.attackerDice = attackerDice, !.defenderDice = defenderDice]

\* compareDice (BattleService.ts:59-97)
compareDice(attackerDice, defenderDice) ==
  compareLoop([attackerDice |-> attackerDice,
               defenderDice |-> defenderDice,
               attackerLosses |-> 0,
               defenderLosses |-> 0,
               comparisons |-> <<>>],
              1, Min(Len(attackerDice), Len(defenderDice)))

\* Mutant of executeBattleRound: the defender's check lets 0 through.
executeBattleRound_DefenderZeroPasses(a, d) ==
  IF a < 1 THEN
    {[thrown |-> "Attacker must have at least 1 army", rolls |-> 0, result |-> Null]}
  ELSE IF d < 0 THEN
    {[thrown |-> "Defender must have at least 1 army", rolls |-> 0, result |-> Null]}
  ELSE
    LET attackerDiceCount == getAttackerDiceCount(a)
        defenderDiceCount == getDefenderDiceCount(d)
    IN { [thrown |-> NoError,
          rolls |-> attackerDiceCount + defenderDiceCount,
          result |-> compareDice(attackerDice, defenderDice)] :
         attackerDice \in rollDice(attackerDiceCount),
         defenderDice \in rollDice(defenderDiceCount) }

\* executeBattleRound (BattleService.ts:102-117): every outcome the call can have.
\* `rolls` counts the rollDie calls it made.
executeBattleRound(a, d) ==
  IF a < 1 THEN
    {[thrown |-> "Attacker must have at least 1 army", rolls |-> 0, result |-> Null]}
  ELSE IF d < 1 THEN
    {[thrown |-> "Defender must have at least 1 army", rolls |-> 0, result |-> Null]}
  ELSE
    LET attackerDiceCount == getAttackerDiceCount(a)
        defenderDiceCount == getDefenderDiceCount(d)
    IN { [thrown |-> NoError,
          rolls |-> attackerDiceCount + defenderDiceCount,
          result |-> compareDice(attackerDice, defenderDice)] :
         attackerDice \in rollDice(attackerDiceCount),
         defenderDice \in rollDice(defenderDiceCount) }

----------------------------------------------------------------------------
(* Initial state: GameService as constructed (GameService.ts:17-23), no    *)
(* BattleService call made yet.                                            *)

NoCall == [op |-> "none", args |-> <<>>, thrown |-> NoError, rolls |-> 0]

\* useBattleLogic's useState initializer (unnamed/part_011:17-22); lastResult and
\* roundHistory only feed the display and are left out.
InitialBattleState == [isRolling |-> FALSE, animationPhase |-> "idle"]

Constructed ==
  /\ players = <<>>
  /\ currentScreen = "setup"
  /\ attacker = Null
  /\ defender = Null
  /\ isGameActive = FALSE
  /\ pc = "idle"
  /\ initialAttackerArmies = 0
  /\ initialDefenderArmies = 0
  /\ attackerArmies = 0
  /\ defenderArmies = 0
  /\ numRounds = 0
  /\ roundLosses = Null
  /\ winner = "none"
  /\ call = NoCall
  /\ result = Null
  /\ page = 0
  /\ battleState = InitialBattleState
  /\ showWithdrawConfirmation = FALSE
  /\ liveTask = Null
  /\ staleTask = Null

Init ==
  /\ service \in {"GameService", "BattleService"}
  /\ Constructed

----------------------------------------------------------------------------
(* BattleService calls *)

ArmyInputs == (-1)..MaxArmies      \* army counts a caller may hand in
DiceCounts == 0..MaxDice           \* counts rollDice is asked for
MaxRounds == 2 * MaxArmies         \* cap of numRounds in the model

\* A caller's executeBattleRound(a, d) (BattleService.ts:102-117)
ExecuteBattleRound(a, d) ==
  /\ service = "BattleService"
  /\ pc = "idle"
  /\ \E o \in executeBattleRound(a, d) :
       /\ call' = [op |-> "executeBattleRound", args |-> <<a, d>>,
                   thrown |-> o.thrown, rolls |-> o.rolls]
       /\ result' = o.result
  /\ pc' = "returned"
  /\ UNCHANGED <<service, gsVars, appVars, initialAttackerArmies, initialDefenderArmies,
                 attackerArmies, defenderArmies, numRounds, roundLosses, winner>>

\* rollDice(count) (BattleService.ts:29-35) on its own: `rolled` is the array as
\* the loop pushed it, `dice` the array the sort returns.
RollDice(count) ==
  /\ service = "BattleService"
  /\ pc = "idle"
  /\ \E rolled \in [1..count -> rollDie] :
       result' = [rolled |-> rolled, dice |-> sortDescending(rolled)]
  /\ call' = [op |-> "rollDice", args |-> <<count>>, thrown |-> NoError,
              rolls |-> IF count > 0 THEN count ELSE 0]
  /\ pc' = "returned"
  /\ UNCHANGED <<service, gsVars, appVars, initialAttackerArmies, initialDefenderArmies,
                 attackerArmies, defenderArmies, numRounds, roundLosses, winner>>

\* simulateCompleteBattle, entry (BattleService.ts:132-134)
SimulateCompleteBattle(a0, d0) ==
  /\ service = "BattleService"
  /\ pc = "idle"
  /\ pc' = "loop"
  /\ initialAttackerArmies' = a0
  /\ initialDefenderArmies' = d0
  /\ attackerArmies' = a0
  /\ defenderArmies' = d0
  /\ numRounds' = 0
  /\ call' = [op |-> "simulateCompleteBattle", args |-> <<a0, d0>>,
              thrown |-> NoError, rolls |-> 0]
  /\ UNCHANGED <<service, gsVars, appVars, roundLosses, winner, result>>

\* What simulateCompleteBattle reads of a round (BattleService.ts:137-141): whether
\* executeBattleRound threw, and the two loss counts of its result.
roundOutcomes(a, d) ==
  { [thrown |-> o.thrown,
     rolls |-> o.rolls,
     losses |-> IF o.result = Null THEN Null
                ELSE [attackerLosses |-> o.result.attackerLosses,
                      defenderLosses |-> o.result.defenderLosses]] :
    o \in executeBattleRound(a, d) }

\* Mutant of SimulateRound: the defender's losses are not subtracted.
SimulateRound_KeepsDefender ==
  /\ service = "BattleService"
  /\ pc = "loop"
  /\ attackerArmies >= 1 /\ defenderArmies > 0
  /\ numRounds < MaxRounds
  /\ \E o \in roundOutcomes(attackerArmies, defenderArmies) :
       IF o.thrown # NoError
       THEN /\ pc' = "returned"
            /\ call' = [call EXCEPT !.thrown = o.thrown]
            /\ UNCHANGED <<attackerArmies, defenderArmies, numRounds, roundLosses>>
       ELSE /\ pc' = "loop"
            /\ numRounds' = numRounds + 1
            /\ roundLosses' = o.losses
            /\ attackerArmies' = attackerArmies - o.losses.attackerLosses
            /\ defenderArmies' = defenderArmies
            /\ call' = [call EXCEPT !.rolls = @ + o.rolls]
  /\ UNCHANGED <<service, gsVars, appVars, initialAttackerArmies, initialDefenderArmies,
                 winner, result>>

\* simulateCompleteBattle, one pass of the while loop (BattleService.ts:136-142):
\* the round's result is pushed and its losses are subtracted.  An exception of
\* executeBattleRound leaves the function.
SimulateRound ==
  /\ service = "BattleService"
  /\ pc = "loop"
  /\ attackerArmies >= 1 /\ defenderArmies > 0
  /\ numRounds < MaxRounds
  /\ \E o \in roundOutcomes(attackerArmies, defenderArmies) :
       IF o.thrown # NoError
       THEN /\ pc' = "returned"
            /\ call' = [call EXCEPT !.thrown = o.thrown]
            /\ UNCHANGED <<attackerArmies, defenderArmies, numRounds, roundLosses>>
       ELSE /\ pc' = "loop"
            /\ numRounds' = numRounds + 1
            /\ roundLosses' = o.losses
            /\ attackerArmies' = attackerArmies - o.losses.attackerLosses
            /\ defenderArmies' = defenderArmies - o.losses.defenderLosses
            /\ call' = [call EXCEPT !.rolls = @ + o.rolls]
  /\ UNCHANGED <<service, gsVars, appVars, initialAttackerArmies, initialDefenderArmies,
                 winner, result>>

\* simulateCompleteBattle, loop exit and return (BattleService.ts:136, 144-151)
SimulateReturn ==
  /\ service = "BattleService"
  /\ pc = "loop"
  /\ ~(attackerArmies >= 1 /\ defenderArmies > 0)
  /\ winner' = IF defenderArmies = 0 THEN "attacker" ELSE "defender"
  /\ pc' = "returned"
  /\ UNCHANGED <<service, gsVars, appVars, initialAttackerArmies, initialDefenderArmies,
                 attackerArmies, defenderArmies, numRounds, roundLosses, call, result>>

BattleNext ==
  \/ \E count \in DiceCounts : RollDice(count)
  \/ \E a \in ArmyInputs, d \in ArmyInputs : ExecuteBattleRound(a, d)
  \/ \E a0 \in ArmyInputs, d0 \in ArmyInputs : SimulateCompleteBattle(a0, d0)
  \/ SimulateRound
  \/ SimulateReturn

----------------------------------------------------------------------------
(* GameService *)

\* Player (name, color, colorName); the model writes a player's texts as its number.
Player(i) == [name |-> i, color |-> i, colorName |-> i]
Roster(n) == [i \in 1..n |-> Player(i)]

Rosters == { Roster(n) : n \in (MinPlayers - 1)..MaxPlayers }
PlayerIndexInputs == 0..MaxPlayers                \* 0-based; MaxPlayers is past the end
CountInputs == (0..MaxCount) \cup {MaxArmyCount, MaxArmyCount + 1}
LossInputs == 0..DefenderDiceCap
Screens == {"setup", "battle"}                    \* screens navigateToScreen is asked for

Called(op, args, thrown) == [op |-> op, args |-> args, thrown |-> thrown, rolls |-> 0]

\* this.state.players[playerIndex], Null where JavaScript gives undefined
playerAt(playerIndex) ==
  IF playerIndex + 1 \in DOMAIN players THEN players[playerIndex + 1] ELSE Null

\* the BattlePlayer of selectAttacker / selectDefender (GameService.ts:80-88, 113-121)
BattlePlayer(playerIndex, player) ==
  [playerIndex |-> playerIndex, name |-> player.name, color |-> player.color,
   colorName |-> player.colorName, armies |-> 0, initialArmies |-> 0, page |-> 0]

\* Mutant of isBattleOver: the attacker may fight on with no army left.
isBattleOver_AttackerBelowZero ==
  IF attacker = Null \/ defender = Null THEN FALSE
  ELSE attacker.armies < 0 \/ defender.armies = 0

\* Mutant of isBattleOver: the defender's test is "below 1" too.
isBattleOver_DefenderBelowOne ==
  IF attacker = Null \/ defender = Null THEN FALSE
  ELSE attacker.armies < 1 \/ defender.armies < 1

\* isBattleOver (GameService.ts:200-206)
isBattleOver ==
  IF attacker = Null \/ defender = Null THEN FALSE
  ELSE attacker.armies < 1 \/ defender.armies = 0

\* Mutant of getBattleWinner: the attacker wins once the defender is below 1.
getBattleWinner_DefenderBelowOne ==
  IF ~isBattleOver THEN "null"
  ELSE IF attacker = Null \/ defender = Null THEN "null"
  ELSE IF defender.armies < 1 THEN "attacker"
  ELSE "defender"

\* getBattleWinner (GameService.ts:211-225)
getBattleWinner ==
  IF ~isBattleOver THEN "null"
  ELSE IF attacker = Null \/ defender = Null THEN "null"
  ELSE IF defender.armies = 0 THEN "attacker"
  ELSE "defender"

\* Mutant of initializeGame: the engagement of the previous game is kept.
initializeGame_KeepsEngagement(ps) ==
  /\ IF Len(ps) < MinPlayers
     THEN /\ call' = Called("initializeGame", <<ps>>,
                            "At least 2 players required to start game")
          /\ UNCHANGED gsVars
     ELSE /\ players' = ps
          /\ currentScreen' = "attacker-selection"
          /\ isGameActive' = TRUE
          /\ call' = Called("initializeGame", <<ps>>, NoError)
          /\ UNCHANGED <<attacker, defender>>

\* initializeGame (GameService.ts:53-65)
initializeGame(ps) ==
  /\ IF Len(ps) < MinPlayers
     THEN /\ call' = Called("initializeGame", <<ps>>,
                            "At least 2 players required to start game")
          /\ UNCHANGED gsVars
     ELSE /\ players' = ps
          /\ currentScreen' = "attacker-selection"
          /\ isGameActive' = TRUE
          /\ attacker' = Null
          /\ defender' = Null
          /\ call' = Called("initializeGame", <<ps>>, NoError)

\* selectAttacker (GameService.ts:70-94)
selectAttacker(playerIndex) ==
  /\ IF ~isGameActive
     THEN /\ call' = Called("selectAttacker", <<playerIndex>>, "Game not active")
          /\ UNCHANGED gsVars
     ELSE IF playerAt(playerIndex) = Null
     THEN /\ call' = Called("selectAttacker", <<playerIndex>>, "Invalid player index")
          /\ UNCHANGED gsVars
     ELSE /\ attacker' = BattlePlayer(playerIndex, playerAt(playerIndex))
          /\ currentScreen' = "defender-selection"
          /\ call' = Called("selectAttacker", <<playerIndex>>, NoError)
          /\ UNCHANGED <<players, defender, isGameActive>>

\* selectDefender (GameService.ts:99-127)
selectDefender(playerIndex) ==
  /\ IF ~isGameActive \/ attacker = Null
     THEN /\ call' = Called("selectDefender", <<playerIndex>>,
                            "Invalid game state for defender selection")
          /\ UNCHANGED gsVars
     ELSE IF playerIndex = attacker.playerIndex
     THEN /\ call' = Called("selectDefender", <<playerIndex>>,
                            "Defender cannot be the same as attacker")
          /\ UNCHANGED gsVars
     ELSE IF playerAt(playerIndex) = Null
     THEN /\ call' = Called("selectDefender", <<playerIndex>>, "Invalid player index")
          /\ UNCHANGED gsVars
     ELSE /\ defender' = BattlePlayer(playerIndex, playerAt(playerIndex))
          /\ currentScreen' = "attacker-armies"
          /\ call' = Called("selectDefender", <<playerIndex>>, NoError)
          /\ UNCHANGED <<players, attacker, isGameActive>>

\* Mutant of setAttackerArmies: the upper limit of the range check is missing.
setAttackerArmies_NoUpperBound(count) ==
  /\ IF attacker = Null
     THEN /\ call' = Called("setAttackerArmies", <<count>>, "No attacker selected")
          /\ UNCHANGED gsVars
     ELSE IF count < MinArmyCount
     THEN /\ call' = Called("setAttackerArmies", <<count>>,
                            "Army count must be between 1 and 50")
          /\ UNCHANGED gsVars
     ELSE /\ attacker' = [attacker EXCEPT !.armies = count, !.initialArmies = count]
          /\ currentScreen' = "defender-armies"
          /\ call' = Called("setAttackerArmies", <<count>>, NoError)
          /\ UNCHANGED <<players, defender, isGameActive>>

\* setAttackerArmies (GameService.ts:132-149)
setAttackerArmies(count) ==
  /\ IF attacker = Null
     THEN /\ call' = Called("setAttackerArmies", <<count>>, "No attacker selected")
          /\ UNCHANGED gsVars
     ELSE IF count < MinArmyCount \/ count > MaxArmyCount
     THEN /\ call' = Called("setAttackerArmies", <<count>>,
                            "Army count must be between 1 and 50")
          /\ UNCHANGED gsVars
     ELSE /\ attacker' = [attacker EXCEPT !.armies = count, !.initialArmies = count]
          /\ currentScreen' = "defender-armies"
          /\ call' = Called("setAttackerArmies", <<count>>, NoError)
          /\ UNCHANGED <<players, defender, isGameActive>>

\* setDefenderArmies (GameService.ts:154-171)
setDefenderArmies(count) ==
  /\ IF defender = Null
     THEN /\ call' = Called("setDefenderArmies", <<count>>, "No defender selected")
          /\ UNCHANGED gsVars
     ELSE IF count < MinArmyCount \/ count > MaxArmyCount
     THEN /\ call' = Called("setDefenderArmies", <<count>>,
                            "Army count must be between 1 and 50")
          /\ UNCHANGED gsVars
     ELSE /\ defender' = [defender EXCEPT !.armies = count, !.initialArmies = count]
          /\ currentScreen' = "battle"
          /\ call' = Called("setDefenderArmies", <<count>>, NoError)
          /\ UNCHANGED <<players, attacker, isGameActive>>

\* Mutant of updateArmyCounts: the counts are clamped at 0.
updateArmyCounts_Clamped(attackerLoss, defenderLoss) ==
  /\ IF attacker = Null \/ defender = Null
     THEN /\ call' = Called("updateArmyCounts", <<attackerLoss, defenderLoss>>,
                            "Invalid battle state")
          /\ UNCHANGED gsVars
     ELSE /\ attacker' = [attacker EXCEPT
               !.armies = IF attacker.armies - attackerLoss < 0 THEN 0
                          ELSE attacker.armies - attackerLoss]
          /\ defender' = [defender EXCEPT
               !.armies = IF defender.armies - defenderLoss < 0 THEN 0
                          ELSE defender.armies - defenderLoss]
          /\ call' = Called("updateArmyCounts", <<attackerLoss, defenderLoss>>, NoError)
          /\ UNCHANGED <<players, currentScreen, isGameActive>>

\* Mutant of updateArmyCounts: the counts left become the initial counts.
updateArmyCounts_ResetsInitial(attackerLoss, defenderLoss) ==
  /\ IF attacker = Null \/ defender = Null
     THEN /\ call' = Called("updateArmyCounts", <<attackerLoss, defenderLoss>>,
                            "Invalid battle state")
          /\ UNCHANGED gsVars
     ELSE /\ attacker' = [attacker EXCEPT !.armies = attacker.armies - attackerLoss,
                                          !.initialArmies = attacker.armies - attackerLoss]
          /\ defender' = [defender EXCEPT !.armies = defender.armies - defenderLoss,
                                          !.initialArmies = defender.armies - defenderLoss]
          /\ call' = Called("updateArmyCounts", <<attackerLoss, defenderLoss>>, NoError)
          /\ UNCHANGED <<players, currentScreen, isGameActive>>

\* updateArmyCounts (GameService.ts:176-195)
updateArmyCounts(attackerLoss, defenderLoss) ==
  /\ IF attacker = Null \/ defender = Null
     THEN /\ call' = Called("updateArmyCounts", <<attackerLoss, defenderLoss>>,
                            "Invalid battle state")
          /\ UNCHANGED gsVars
     ELSE /\ attacker' = [attacker EXCEPT !.armies = attacker.armies - attackerLoss]
          /\ defender' = [defender EXCEPT !.armies = defender.armies - defenderLoss]
          /\ call' = Called("updateArmyCounts", <<attackerLoss, defenderLoss>>, NoError)
          /\ UNCHANGED <<players, currentScreen, isGameActive>>

\* resetGame (GameService.ts:230-238)
resetGame ==
  /\ players' = <<>>
  /\ currentScreen' = "setup"
  /\ attacker' = Null
  /\ defender' = Null
  /\ isGameActive' = FALSE
  /\ call' = Called("resetGame", <<>>, NoError)

\* Mutant of withdraw: the defender stays selected.
withdraw_KeepsDefender ==
  /\ IF ~isGameActive
     THEN /\ call' = Called("withdraw", <<>>, "No active battle to withdraw from")
          /\ UNCHANGED gsVars
     ELSE /\ currentScreen' = "attacker-selection"
          /\ attacker' = Null
          /\ call' = Called("withdraw", <<>>, NoError)
          /\ UNCHANGED <<players, defender, isGameActive>>

\* withdraw (GameService.ts:243-253)
withdraw ==
  /\ IF ~isGameActive
     THEN /\ call' = Called("withdraw", <<>>, "No active battle to withdraw from")
          /\ UNCHANGED gsVars
     ELSE /\ currentScreen' = "attacker-selection"
          /\ attacker' = Null
          /\ defender' = Null
          /\ call' = Called("withdraw", <<>>, NoError)
          /\ UNCHANGED <<players, isGameActive>>

\* navigateToScreen (GameService.ts:258-260)
navigateToScreen(screen) ==
  /\ currentScreen' = screen
  /\ call' = Called("navigateToScreen", <<screen>>, NoError)
  /\ UNCHANGED <<players, attacker, defender, isGameActive>>

\* goToPlayerSetup (GameService.ts:265-272)
goToPlayerSetup ==
  /\ currentScreen' = "setup"
  /\ attacker' = Null
  /\ defender' = Null
  /\ isGameActive' = FALSE
  /\ call' = Called("goToPlayerSetup", <<>>, NoError)
  /\ UNCHANGED players

\* startNewBattle (GameService.ts:277-288)
startNewBattle ==
  /\ IF Len(players) < MinPlayers
     THEN /\ call' = Called("startNewBattle", <<>>,
                            "At least 2 players required to start new battle")
          /\ UNCHANGED gsVars
     ELSE /\ currentScreen' = "attacker-selection"
          /\ attacker' = Null
          /\ defender' = Null
          /\ isGameActive' = TRUE
          /\ call' = Called("startNewBattle", <<>>, NoError)
          /\ UNCHANGED players

----------------------------------------------------------------------------
(* Calls of the GameService methods by a caller that holds the singleton *)

\* The model follows a side down to MaxLost armies below its initial count.
WithinLost(battlePlayer, loss) ==
  battlePlayer.initialArmies - (battlePlayer.armies - loss) <= MaxLost

InitializeGame(ps) ==
  /\ service = "GameService"
  /\ initializeGame(ps)
  /\ UNCHANGED <<service, simVars, result, appVars>>

SelectAttacker(playerIndex) ==
  /\ service = "GameService"
  /\ selectAttacker(playerIndex)
  /\ UNCHANGED <<service, simVars, result, appVars>>

SelectDefender(playerIndex) ==
  /\ service = "GameService"
  /\ selectDefender(playerIndex)
  /\ UNCHANGED <<service, simVars, result, appVars>>

SetAttackerArmies(count) ==
  /\ service = "GameService"
  /\ setAttackerArmies(count)
  /\ UNCHANGED <<service, simVars, result, appVars>>

SetDefenderArmies(count) ==
  /\ service = "GameService"
  /\ setDefenderArmies(count)
  /\ UNCHANGED <<service, simVars, result, appVars>>

UpdateArmyCounts(attackerLoss, defenderLoss) ==
  /\ service = "GameService"
  /\ (attacker # Null /\ defender # Null) =>
       (WithinLost(attacker, attackerLoss) /\ WithinLost(defender, defenderLoss))
  /\ updateArmyCounts(attackerLoss, defenderLoss)
  /\ UNCHANGED <<service, simVars, result, appVars>>

ResetGame ==
  /\ service = "GameService"
  /\ resetGame
  /\ UNCHANGED <<service, simVars, result, appVars>>

Withdraw ==
  /\ service = "GameService"
  /\ withdraw
  /\ UNCHANGED <<service, simVars, result, appVars>>

NavigateToScreen(screen) ==
  /\ service = "GameService"
  /\ navigateToScreen(screen)
  /\ UNCHANGED <<service, simVars, result, appVars>>

GoToPlayerSetup ==
  /\ service = "GameService"
  /\ goToPlayerSetup
  /\ UNCHANGED <<service, simVars, result, appVars>>

StartNewBattle ==
  /\ service = "GameService"
  /\ startNewBattle
  /\ UNCHANGED <<service, simVars, result, appVars>>

GameNext ==
  \/ \E ps \in Rosters : InitializeGame(ps)
  \/ \E playerIndex \in PlayerIndexInputs : SelectAttacker(playerIndex)
  \/ \E playerIndex \in PlayerIndexInputs : SelectDefender(playerIndex)
  \/ \E count \in CountInputs : SetAttackerArmies(count)
  \/ \E count \in CountInputs : SetDefenderArmies(count)
  \/ \E attackerLoss \in LossInputs, defenderLoss \in LossInputs :
       UpdateArmyCounts(attackerLoss, defenderLoss)
  \/ ResetGame
  \/ Withdraw
  \/ \E screen \in Screens : NavigateToScreen(screen)
  \/ GoToPlayerSetup
  \/ StartNewBattle

----------------------------------------------------------------------------
(* The Preact application.  App (src/src/App.tsx:173-317) renders the screen   *)
(* GameService.currentScreen names and hands the clicks to the gameService     *)
(* singleton; BattleScreen (unnamed/part_006) rolls through useBattleLogic     *)
(* (unnamed/part_011), whose rollDice is an async function: its steps run      *)
(* from timers, between which any other handler may run.                       *)

\* The army counts the player presses in the model.
ArmyPicks == {1, 3, 5}

\* renderFirstPageButtons (ArmySelection.tsx:62-77): the numbers of its army buttons
renderFirstPageButtons == { i \in 1..FirstPageCount : TRUE }

\* renderOtherPageButtons (ArmySelection.tsx:79-106) on page p
renderOtherPageButtons(p) ==
  LET startNum == p * PageStride + 1
      isLastPage == p >= LastPage
      numbersToShow == IF isLastPage THEN LastPageCount ELSE OtherPageCount
  IN  { num \in { startNum + i : i \in 0..(numbersToShow - 1) } : num <= MaxArmyCount }

\* renderArmyButtons (ArmySelection.tsx:108-111) on page p
renderArmyButtons(p) ==
  IF p = 0 THEN renderFirstPageButtons ELSE renderOtherPageButtons(p)

\* canRoll (unnamed/part_011:133-135)
canRoll == battleState.animationPhase = "idle" /\ ~battleState.isRolling

\* canRollDice (unnamed/part_006:201-202)
canRollDice == canRoll /\ ~isBattleOver

\* What onComplete reads of the round executeBattleRound(a, d) returns, for every
\* pair of army counts a rollDice call of the model is made with.
TaskArmies == (-MaxArmies)..MaxArmies
taskOutcomes == [a \in TaskArmies, d \in TaskArmies |-> roundOutcomes(a, d)]

\* A rollDice call in flight (unnamed/part_011:27-69): where it waits, the
\* arguments it was called with, and the losses of its result once it has one
\* (all that onComplete reads of the result, unnamed/part_006:151-166).
Task(a, d) ==
  [pos |-> "rolling", attackerArmies |-> a, defenderArmies |-> d, losses |-> Null]

\* App renders again after a GameService call (App.tsx:242-298).  ArmySelection
\* keeps its page while one of the two army screens follows the other (the same
\* component at the same place) and starts at page 0 otherwise.  BattleScreen is
\* mounted while currentScreen is "battle"; unmounting discards its hook state
\* and leaves the timers of a rollDice call in flight running.  The model follows
\* one such call at a time.
Rerender ==
  /\ page' = IF currentScreen' \in {"attacker-armies", "defender-armies"} THEN page ELSE 0
  /\ IF currentScreen = "battle" /\ currentScreen' # "battle"
     THEN /\ liveTask # Null => staleTask = Null
          /\ battleState' = InitialBattleState
          /\ showWithdrawConfirmation' = FALSE
          /\ liveTask' = Null
          /\ staleTask' = IF liveTask # Null THEN liveTask ELSE staleTask
     ELSE UNCHANGED <<battleState, showWithdrawConfirmation, liveTask, staleTask>>

\* handlePlayersReady (App.tsx:213-216); PlayerSetup hands over 2 players or more
HandlePlayersReady ==
  /\ service = "App"
  /\ currentScreen = "setup"
  /\ initializeGame(Roster(MinPlayers))
  /\ Rerender
  /\ UNCHANGED <<service, simVars, result>>

\* handleAttackerSelect (App.tsx:218-220), from a button of PlayerSelection
HandleAttackerSelect(index) ==
  /\ service = "App"
  /\ currentScreen = "attacker-selection"
  /\ index \in 0..(Len(players) - 1)
  /\ selectAttacker(index)
  /\ Rerender
  /\ UNCHANGED <<service, simVars, result>>

\* handleDefenderSelect (App.tsx:222-224); PlayerSelection leaves out the
\* attacker's button (App.tsx:265-267, PlayerSelection.tsx:17)
HandleDefenderSelect(index) ==
  /\ service = "App"
  /\ currentScreen = "defender-selection"
  /\ index \in 0..(Len(players) - 1)
  /\ attacker # Null => index # attacker.playerIndex
  /\ selectDefender(index)
  /\ Rerender
  /\ UNCHANGED <<service, simVars, result>>

\* handlePageChange (ArmySelection.tsx:29-36)
HandlePageChange(direction) ==
  /\ service = "App"
  /\ \/ currentScreen = "attacker-armies" /\ attacker # Null
     \/ currentScreen = "defender-armies" /\ defender # Null
  /\ LET newPage == page + direction
         isValidPage == newPage >= 0 /\ newPage <= LastPage
     IN  page' = IF isValidPage THEN newPage ELSE page
  /\ UNCHANGED <<service, gsVars, simVars, call, result,
                 battleState, showWithdrawConfirmation, liveTask, staleTask>>

\* handleAttackerArmySelect (App.tsx:226-228), from an army button of the page shown
HandleAttackerArmySelect(count) ==
  /\ service = "App"
  /\ currentScreen = "attacker-armies"
  /\ attacker # Null
  /\ count \in renderArmyButtons(page)
  /\ setAttackerArmies(count)
  /\ Rerender
  /\ UNCHANGED <<service, simVars, result>>

\* handleDefenderArmySelect (App.tsx:230-232)
HandleDefenderArmySelect(count) ==
  /\ service = "App"
  /\ currentScreen = "defender-armies"
  /\ defender # Null
  /\ count \in renderArmyButtons(page)
  /\ setDefenderArmies(count)
  /\ Rerender
  /\ UNCHANGED <<service, simVars, result>>

\* handleHomeClick (App.tsx:234-236), the header's button on every screen
HandleHomeClick ==
  /\ service = "App"
  /\ resetGame
  /\ Rerender
  /\ UNCHANGED <<service, simVars, result>>

\* handleRollDice up to the first await of rollDice (unnamed/part_006:138-151,
\* unnamed/part_011:27-39)
HandleRollDice ==
  /\ service = "App"
  /\ currentScreen = "battle"
  /\ attacker # Null /\ defender # Null
  /\ canRollDice
  /\ battleState' = [isRolling |-> TRUE, animationPhase |-> "rolling"]
  /\ liveTask' = Task(attacker.armies, defender.armies)
  /\ UNCHANGED <<service, gsVars, simVars, call, result,
                 page, showWithdrawConfirmation, staleTask>>

\* The timers of two rollDice calls have the same delays, so the call started
\* first (the stale one) takes each of its steps first.
staleIsPast(positions) ==
  IF staleTask = Null THEN TRUE ELSE staleTask.pos \notin positions

\* rollDice after the first delay (unnamed/part_011:41-52) on the mounted screen.
\* An Error of executeBattleRound rejects the promise: handleRollDice catches it
\* (unnamed/part_006:180-183) and the phase stays "rolling".
RollDiceExecute ==
  /\ service = "App"
  /\ liveTask # Null
  /\ liveTask.pos = "rolling"
  /\ staleIsPast({"rolling"})
  /\ \E o \in taskOutcomes[liveTask.attackerArmies, liveTask.defenderArmies] :
       IF o.thrown # NoError
       THEN /\ liveTask' = Null
            /\ UNCHANGED battleState
       ELSE /\ liveTask' = [liveTask EXCEPT !.pos = "showing-results", !.losses = o.losses]
            /\ battleState' = [isRolling |-> FALSE, animationPhase |-> "showing-results"]
  /\ UNCHANGED <<service, gsVars, simVars, call, result,
                 page, showWithdrawConfirmation, staleTask>>

\* the same step of a call whose screen is gone: setBattleState has no effect
StaleRollDiceExecute ==
  /\ service = "App"
  /\ staleTask # Null
  /\ staleTask.pos = "rolling"
  /\ \E o \in taskOutcomes[staleTask.attackerArmies, staleTask.defenderArmies] :
       staleTask' = IF o.thrown # NoError THEN Null
                    ELSE [staleTask EXCEPT !.pos = "showing-results", !.losses = o.losses]
  /\ UNCHANGED <<service, gsVars, simVars, call, result,
                 page, battleState, showWithdrawConfirmation, liveTask>>

\* rollDice after the second delay (unnamed/part_011:54-66): the final timer is set
RollDiceComplete ==
  /\ service = "App"
  /\ liveTask # Null
  /\ liveTask.pos = "showing-results"
  /\ staleIsPast({"rolling", "showing-results"})
  /\ liveTask' = [liveTask EXCEPT !.pos = "complete"]
  /\ battleState' = [battleState EXCEPT !.animationPhase = "complete"]
  /\ UNCHANGED <<service, gsVars, simVars, call, result,
                 page, showWithdrawConfirmation, staleTask>>

StaleRollDiceComplete ==
  /\ service = "App"
  /\ staleTask # Null
  /\ staleTask.pos = "showing-results"
  /\ staleTask' = [staleTask EXCEPT !.pos = "complete"]
  /\ UNCHANGED <<service, gsVars, simVars, call, result,
                 page, battleState, showWithdrawConfirmation, liveTask>>

\* the final timer (unnamed/part_011:60-66): the phase is idle again and onComplete
\* (unnamed/part_006:151-179) hands the losses to updateArmyCounts
RollDiceTimer ==
  /\ service = "App"
  /\ liveTask # Null
  /\ liveTask.pos = "complete"
  /\ staleIsPast({"rolling", "showing-results", "complete"})
  /\ battleState' = [battleState EXCEPT !.animationPhase = "idle"]
  /\ updateArmyCounts(liveTask.losses.attackerLosses, liveTask.losses.defenderLosses)
  /\ liveTask' = Null
  /\ UNCHANGED <<service, simVars, result, page, showWithdrawConfirmation, staleTask>>

\* the final timer of a call whose screen is gone: onComplete still runs, on the
\* gameService singleton as it is now
StaleRollDiceTimer ==
  /\ service = "App"
  /\ staleTask # Null
  /\ staleTask.pos = "complete"
  /\ updateArmyCounts(staleTask.losses.attackerLosses, staleTask.losses.defenderLosses)
  /\ staleTask' = Null
  /\ UNCHANGED <<service, simVars, result,
                 page, battleState, showWithdrawConfirmation, liveTask>>

\* handleWithdraw (unnamed/part_006:186-194); the button is shown while the battle
\* is not over (unnamed/part_006:281-293)
HandleWithdraw ==
  /\ service = "App"
  /\ currentScreen = "battle"
  /\ attacker # Null /\ defender # Null
  /\ ~isBattleOver
  /\ IF showWithdrawConfirmation
     THEN /\ withdraw
          /\ Rerender
     ELSE /\ showWithdrawConfirmation' = TRUE
          /\ UNCHANGED <<gsVars, call, page, battleState, liveTask, staleTask>>
  /\ UNCHANGED <<service, simVars, result>>

\* the timer of handleWithdraw's first click (unnamed/part_006:192)
WithdrawConfirmationTimeout ==
  /\ service = "App"
  /\ showWithdrawConfirmation
  /\ showWithdrawConfirmation' = FALSE
  /\ UNCHANGED <<service, gsVars, simVars, call, result,
                 page, battleState, liveTask, staleTask>>

\* handleNewBattle (unnamed/part_006:196-198); the button is shown once the battle
\* is over
HandleNewBattle ==
  /\ service = "App"
  /\ currentScreen = "battle"
  /\ attacker # Null /\ defender # Null
  /\ isBattleOver
  /\ startNewBattle
  /\ Rerender
  /\ UNCHANGED <<service, simVars, result>>

AppNext ==
  \/ HandlePlayersReady
  \/ \E index \in PlayerIndexInputs : HandleAttackerSelect(index)
  \/ \E index \in PlayerIndexInputs : HandleDefenderSelect(index)
  \/ \E direction \in {-1, 1} : HandlePageChange(direction)
  \/ \E count \in ArmyPicks : HandleAttackerArmySelect(count)
  \/ \E count \in ArmyPicks : HandleDefenderArmySelect(count)
  \/ HandleHomeClick
  \/ HandleRollDice
  \/ RollDiceExecute
  \/ StaleRollDiceExecute
  \/ RollDiceComplete
  \/ StaleRollDiceComplete
  \/ RollDiceTimer
  \/ StaleRollDiceTimer
  \/ HandleWithdraw
  \/ WithdrawConfirmationTimeout
  \/ HandleNewBattle

----------------------------------------------------------------------------
(* The legacy page script (src/src/main.js): what rollDice computes from the *)
(* army counts of gameState and the values Math.random yields, and what      *)
(* updateBattleDisplay decides from the army counts.                         *)

\* the loss loop of rollDice (main.js:459-465), from index i (1-based here) on
RECURSIVE main_lossLoop(_, _, _, _, _)
main_lossLoop(attackerRolls, defenderRolls, i, comparisons, losses) ==
  IF i > comparisons THEN losses
  ELSE main_lossLoop(attackerRolls, defenderRolls, i + 1, comparisons,
         IF attackerRolls[i] > defenderRolls[i]
         THEN [losses EXCEPT !.defenderLosses = @ + 1]
         ELSE [losses EXCEPT !.attackerLosses = @ + 1])

\* the values pushed by a roll loop (main.js:438-444): the first count values
\* of those drawn; none when count is below 1
main_rolls(count, drawn) == SubSeq(drawn, 1, count)

\* Mutant of main_rollDice: the attacker's dice count is capped at 2.
main_rollDice_AttackerTwoDice(a, d, attackerDrawn, defenderDrawn) ==
  LET attackerDiceCount == Min(a, DefenderDiceCap)
      defenderDiceCount == Min(d, DefenderDiceCap)
      attackerRolls == sortDescending(main_rolls(attackerDiceCount, attackerDrawn))
      defenderRolls == sortDescending(main_rolls(defenderDiceCount, defenderDrawn))
      comparisons == Min(Len(attackerRolls), Len(defenderRolls))
      losses == main_lossLoop(attackerRolls, defenderRolls, 1, comparisons,
                              [attackerLosses |-> 0, defenderLosses |-> 0])
  IN [attackerDiceCount |-> attackerDiceCount,
      defenderDiceCount |-> defenderDiceCount,
      attackerRolls |-> attackerRolls,
      defenderRolls |-> defenderRolls,
      attackerLosses |-> losses.attackerLosses,
      defenderLosses |-> losses.defenderLosses]

\* rollDice up to the losses (main.js:431-465) with gameState.attacker.armies = a
\* and gameState.defender.armies = d: the dice counts, the rolls sorted highest
\* first and the losses, for the values drawn for each side
main_rollDice(a, d, attackerDrawn, defenderDrawn) ==
  LET attackerDiceCount == Min(a, AttackerDiceCap)
      defenderDiceCount == Min(d, DefenderDiceCap)
      attackerRolls == sortDescending(main_rolls(attackerDiceCount, attackerDrawn))
      defenderRolls == sortDescending(main_rolls(defenderDiceCount, defenderDrawn))
      comparisons == Min(Len(attackerRolls), Len(defenderRolls))
      losses == main_lossLoop(attackerRolls, defenderRolls, 1, comparisons,
                              [attackerLosses |-> 0, defenderLosses |-> 0])
  IN [attackerDiceCount |-> attackerDiceCount,
      defenderDiceCount |-> defenderDiceCount,
      attackerRolls |-> attackerRolls,
      defenderRolls |-> defenderRolls,
      attackerLosses |-> losses.attackerLosses,
      defenderLosses |-> losses.defenderLosses]

\* updateBattleDisplay (main.js:408-424) with gameState.attacker.armies = a and
\* gameState.defender.armies = d: whether the battle is declared ended,
\* and for whom the message speaks ("Victory!" for the attacker, "has no more
\* armies to attack with" against the attacker)
main_updateBattleDisplay(a, d) ==
  IF a < 1 \/ d = 0
  THEN [ended |-> TRUE,
        winner |-> IF d = 0 THEN "attacker" ELSE "defender"]
  ELSE [ended |-> FALSE, winner |-> "null"]

Next == GameNext \/ BattleNext

Spec == Init /\ [][Next]_vars

\* simulateCompleteBattle alone: its loop is synchronous code, which keeps running
\* until the guard fails, so a pass or the return that is possible is taken.
BattleInit == Init /\ service = "BattleService"

\* The application, and BattleService as the application calls it.
AppInit ==
  /\ service \in {"App", "BattleService"}
  /\ Constructed

AppSpec == AppInit /\ [][AppNext \/ BattleNext]_vars

LiveSpec ==
  /\ BattleInit
  /\ [][BattleNext]_vars
  /\ WF_vars(SimulateRound)
  /\ WF_vars(SimulateReturn)

----------------------------------------------------------------------------
(* Claims *)

\* what the claims read of the latest call
RoundReturned == call.op = "executeBattleRound" /\ call.thrown = NoError
SimulationOf(a0, d0) ==
  call.op = "simulateCompleteBattle" /\ call.args = <<a0, d0>>
SimulationFromValid ==
  /\ call.op = "simulateCompleteBattle"
  /\ initialAttackerArmies >= 1
  /\ initialDefenderArmies >= 1
BothSet == attacker # Null /\ defender # Null

\* C1: every round executeBattleRound(a, d) returns for a >= 1 and d >= 1 has
\* attackerLosses >= 0, defenderLosses >= 0 and
\* attackerLosses + defenderLosses = min(min(a, 3), min(d, 2)), which is at least 1.
C1_LossConservation ==
  (call.op = "executeBattleRound" /\ call.args[1] >= 1 /\ call.args[2] >= 1) =>
    /\ result # Null
    /\ result.attackerLosses >= 0
    /\ result.defenderLosses >= 0
    /\ result.attackerLosses + result.defenderLosses
         = Min(Min(call.args[1], 3), Min(call.args[2], 2))
    /\ result.attackerLosses + result.defenderLosses >= 1

C1_Witness ==
  /\ RoundReturned
  /\ call.args = <<4, 3>>
  /\ result.attackerLosses = 1
  /\ result.defenderLosses = 1

\* C2: in every compared pair the winner is "attacker" iff the attacker's die is
\* strictly greater; on a tie or a lower die the winner is "defender" and the
\* attacker loses the army.
C2_DefenderWinsTies ==
  (RoundReturned /\ result # Null) =>
    /\ \A i \in DOMAIN result.comparisons :
         LET c == result.comparisons[i] IN
           /\ c.attackerDie = result.attackerDice[i]
           /\ c.defenderDie = result.defenderDice[i]
           /\ c.winner = "attacker" <=> c.attackerDie > c.defenderDie
           /\ c.attackerDie <= c.defenderDie => c.winner = "defender"
    /\ result.attackerLosses =
         Cardinality({ i \in DOMAIN result.comparisons :
                         result.attackerDice[i] <= result.defenderDice[i] })
    /\ result.defenderLosses =
         Cardinality({ i \in DOMAIN result.comparisons :
                         result.attackerDice[i] > result.defenderDice[i] })

C2_Witness ==
  /\ RoundReturned
  /\ result # Null
  /\ result.attackerDice = <<6, 5, 1>>
  /\ result.defenderDice = <<6, 3>>
  /\ result.comparisons[1].winner = "defender"
  /\ result.comparisons[2].winner = "attacker"

\* C3: in simulateCompleteBattle(a0, d0) with a0 >= 1 and d0 >= 1 both army counts
\* are >= 0 after any number of rounds, each run on the current counts with its
\* losses subtracted (a round's losses for a side never exceed that side's count).
C3_ArmiesNonNegative ==
  SimulationFromValid => (attackerArmies >= 0 /\ defenderArmies >= 0)

C3_Witness ==
  /\ SimulationFromValid
  /\ pc = "loop"
  /\ numRounds = 2
  /\ attackerArmies = 0
  /\ roundLosses # Null
  /\ roundLosses.attackerLosses = 2

\* C4: updateArmyCounts called while isBattleOver() is true fails with an error and
\* leaves both army counts unchanged.
\* (Stated of engagements whose two army counts were set, the ones that began.)
C4_ApplyWhileOverFails ==
  [][(/\ call'.op = "updateArmyCounts"
      /\ isBattleOver
      /\ attacker.initialArmies >= 1
      /\ defender.initialArmies >= 1) =>
       /\ call'.thrown # NoError
       /\ attacker' = attacker
       /\ defender' = defender]_vars

\* C5: executeBattleRound(a, d) throws whenever a < 1 or d < 1, rolling no dice and
\* returning no result; for a >= 1 and d >= 1 it returns a result and does not throw.
C5_RoundPrecondition ==
  call.op = "executeBattleRound" =>
    LET a == call.args[1]
        d == call.args[2]
    IN /\ (a < 1 \/ d < 1) =>
            call.thrown # NoError /\ call.rolls = 0 /\ result = Null
       /\ (a >= 1 /\ d >= 1) =>
            call.thrown = NoError /\ result # Null

C5_Witness ==
  /\ call.op = "executeBattleRound"
  /\ call.args = <<2, 0>>
  /\ call.thrown = "Defender must have at least 1 army"
  /\ result = Null

\* C6: whenever attacker and defender are both set, isBattleOver() is true iff
\* attacker.armies < 1 or defender.armies = 0, for every integer army count.
C6_TerminalCheck ==
  BothSet =>
    /\ isBattleOver <=> (attacker.armies < 1 \/ defender.armies = 0)
    /\ ~isBattleOver <=> (attacker.armies >= 1 /\ defender.armies # 0)

C6_Witness ==
  /\ BothSet
  /\ attacker.armies >= 1
  /\ defender.armies < 0
  /\ ~isBattleOver

\* C7: getBattleWinner() is null whenever isBattleOver() is false; when the battle is
\* over it is "attacker" iff defender.armies = 0 and "defender" otherwise;
\* simulateCompleteBattle returns the winner of its final counts by the same rule.
C7_WinnerDetermination ==
  /\ ~isBattleOver => getBattleWinner = "null"
  /\ isBattleOver =>
       /\ getBattleWinner = "attacker" <=> defender.armies = 0
       /\ getBattleWinner = "defender" <=> defender.armies # 0
  /\ (call.op = "simulateCompleteBattle" /\ pc = "returned" /\ call.thrown = NoError) =>
       /\ winner = "attacker" <=> defenderArmies = 0
       /\ winner = "defender" <=> defenderArmies # 0

C7_Witness ==
  /\ isBattleOver
  /\ attacker.armies = 0
  /\ defender.armies < 0
  /\ getBattleWinner = "defender"

\* C8: simulateCompleteBattle(a0, d0) with a0 >= 1 and d0 >= 1 terminates whatever
\* the dice show, after at most a0 + d0 - 1 rounds: every round strictly decreases
\* attackerArmies + defenderArmies, and when it returns attackerArmies < 1 or
\* defenderArmies = 0.
C8_Terminates ==
  /\ [](SimulationFromValid =>
          /\ numRounds <= initialAttackerArmies + initialDefenderArmies - 1
          /\ pc = "returned" => (attackerArmies < 1 \/ defenderArmies = 0))
  /\ [][(SimulationFromValid /\ numRounds' = numRounds + 1) =>
          attackerArmies' + defenderArmies' < attackerArmies + defenderArmies]_vars
  /\ (SimulationFromValid /\ pc = "loop") ~> (pc = "returned" /\ call.thrown = NoError)

C8_Witness ==
  /\ SimulationOf(1, 3)
  /\ pc = "returned"
  /\ numRounds = 3
  /\ attackerArmies = 1
  /\ defenderArmies = 0

\* C9: for every army count n >= 1 the attacker rolls exactly min(n, 3) dice and the
\* defender exactly min(n, 2) dice (capped at the army count itself, not at
\* armies - 1), so a round has 1..3 attacker dice and 1..2 defender dice.
C9_DiceCountCap ==
  RoundReturned =>
    LET a == call.args[1]
        d == call.args[2]
    IN /\ Len(result.attackerDice) = (IF a <= 3 THEN a ELSE 3)
       /\ Len(result.defenderDice) = (IF d <= 2 THEN d ELSE 2)
       /\ Len(result.attackerDice) \in 1..3
       /\ Len(result.defenderDice) \in 1..2
       /\ call.rolls = Len(result.attackerDice) + Len(result.defenderDice)

C9_Witness ==
  /\ RoundReturned
  /\ call.args = <<1, 1>>
  /\ Len(result.attackerDice) = 1
  /\ Len(result.defenderDice) = 1

\* C10: updateArmyCounts(aL, dL) on a state with both players set gives
\* attacker.armies = old attacker.armies - aL and defender.armies = old
\* defender.armies - dL exactly, without clamping; each pass of the loop of
\* simulateCompleteBattle subtracts the round's losses the same way.
C10_ApplyRound ==
  [][/\ (call'.op = "updateArmyCounts" /\ BothSet) =>
          /\ call'.thrown = NoError
          /\ attacker'.armies = attacker.armies - call'.args[1]
          /\ defender'.armies = defender.armies - call'.args[2]
     /\ (pc = "loop" /\ numRounds' = numRounds + 1) =>
          /\ attackerArmies' = attackerArmies - roundLosses'.attackerLosses
          /\ defenderArmies' = defenderArmies - roundLosses'.defenderLosses]_vars

C10_Witness ==
  /\ call.op = "updateArmyCounts"
  /\ call.args = <<1, 2>>
  /\ call.thrown = NoError
  /\ attacker.armies = 1
  /\ defender.armies = -1

\* C11: for every count >= 1, rollDice(count) returns exactly count values, each an
\* integer in 1..6 (and so do the dice of every round result).
C11_DiceBounds ==
  /\ (call.op = "rollDice" /\ call.args[1] >= 1) =>
       /\ Len(result.dice) = call.args[1]
       /\ call.rolls = call.args[1]
       /\ \A i \in DOMAIN result.dice : result.dice[i] \in 1..6
  /\ RoundReturned =>
       /\ \A i \in DOMAIN result.attackerDice : result.attackerDice[i] \in 1..6
       /\ \A i \in DOMAIN result.defenderDice : result.defenderDice[i] \in 1..6

C11_Witness ==
  /\ call.op = "rollDice"
  /\ call.args = <<4>>
  /\ result.dice = <<6, 6, 1, 1>>

\* C12: every roll rollDice returns is sorted in non-increasing order and holds the
\* values that were rolled; so are attackerDice and defenderDice of every round
\* result, and comparison i pairs the i-th highest dice of the two sides.
NonIncreasing(dice) ==
  \A i \in 1..(Len(dice) - 1) : dice[i] >= dice[i + 1]
Occurrences(dice, v) == Cardinality({ i \in DOMAIN dice : dice[i] = v })

C12_DescendingOrder ==
  /\ call.op = "rollDice" =>
       /\ NonIncreasing(result.dice)
       /\ \A v \in 1..6 : Occurrences(result.dice, v) = Occurrences(result.rolled, v)
  /\ RoundReturned =>
       /\ NonIncreasing(result.attackerDice)
       /\ NonIncreasing(result.defenderDice)
       /\ \A i \in DOMAIN result.comparisons :
            /\ result.comparisons[i].attackerDie = result.attackerDice[i]
            /\ result.comparisons[i].defenderDie = result.defenderDice[i]
            /\ \A j \in DOMAIN result.attackerDice :
                 j > i => result.attackerDice[j] <= result.comparisons[i].attackerDie
            /\ \A j \in DOMAIN result.defenderDice :
                 j > i => result.defenderDice[j] <= result.comparisons[i].defenderDie

C12_Witness ==
  /\ call.op = "rollDice"
  /\ result.rolled = <<1, 6, 3>>
  /\ result.dice = <<6, 3, 1>>

\* C13: setAttackerArmies and setDefenderArmies throw for every count < 1 or > 50
\* and leave the whole GameService state unchanged; for 1 <= count <= 50 with the
\* player selected they set that player's armies and initialArmies to count.
C13_ArmyCountRange ==
  [][/\ call'.op = "setAttackerArmies" =>
          /\ (call'.args[1] < 1 \/ call'.args[1] > 50) =>
               (call'.thrown # NoError /\ gsVars' = gsVars)
          /\ (call'.args[1] >= 1 /\ call'.args[1] <= 50 /\ attacker # Null) =>
               /\ call'.thrown = NoError
               /\ attacker'.armies = call'.args[1]
               /\ attacker'.initialArmies = call'.args[1]
     /\ call'.op = "setDefenderArmies" =>
          /\ (call'.args[1] < 1 \/ call'.args[1] > 50) =>
               (call'.thrown # NoError /\ gsVars' = gsVars)
          /\ (call'.args[1] >= 1 /\ call'.args[1] <= 50 /\ defender # Null) =>
               /\ call'.thrown = NoError
               /\ defender'.armies = call'.args[1]
               /\ defender'.initialArmies = call'.args[1]]_vars

C13_Witness ==
  /\ call.op = "setAttackerArmies"
  /\ call.args = <<51>>
  /\ call.thrown = "Army count must be between 1 and 50"
  /\ attacker # Null
  /\ attacker.armies = 2
  /\ attacker.initialArmies = 2

\* C17: initializeGame with fewer than 2 players throws and leaves the state
\* unchanged; with 2 or more it stores them, sets isGameActive, moves to
\* "attacker-selection" and clears attacker and defender; startNewBattle throws,
\* changing nothing, when fewer than 2 players are stored.
C17_GameStart ==
  [][/\ call'.op = "initializeGame" =>
          IF Len(call'.args[1]) < 2
          THEN call'.thrown # NoError /\ gsVars' = gsVars
          ELSE /\ call'.thrown = NoError
               /\ players' = call'.args[1]
               /\ isGameActive'
               /\ currentScreen' = "attacker-selection"
               /\ attacker' = Null
               /\ defender' = Null
     /\ (call'.op = "startNewBattle" /\ Len(players) < 2) =>
          (call'.thrown # NoError /\ gsVars' = gsVars)]_vars

C17_Witness ==
  /\ call.op = "initializeGame"
  /\ call.thrown = NoError
  /\ Len(players) = 2
  /\ isGameActive
  /\ currentScreen = "attacker-selection"
  /\ attacker = Null
  /\ defender = Null

\* C14: every army count from 1 to 50 can be chosen in the ArmySelection grid: for
\* every n in 1..50 some page p in 0..4 shows a button that selects n, and no
\* button selects a value outside 1..50.
C14_EveryCountSelectable ==
  /\ \A n \in 1..50 : \E p \in 0..4 : n \in renderArmyButtons(p)
  /\ page \in 0..4
  /\ \A n \in renderArmyButtons(page) : n \in 1..50

\* C15: scenario B.  With attacker = 1 and defender = 5 the attacker rolls 1 die,
\* the defender 2, and exactly one pair is compared; the attacker's 4 against the
\* defender's highest die 4 gives attackerLosses = 1, defenderLosses = 0; applying
\* that round gives attacker = 0, defender = 5, the battle is over and the winner
\* is the defender.
C15_ScenarioB ==
  /\ []((RoundReturned /\ call.args = <<1, 5>>) =>
          /\ Len(result.attackerDice) = 1
          /\ Len(result.defenderDice) = 2
          /\ Len(result.comparisons) = 1
          /\ (result.attackerDice[1] = 4 /\ result.defenderDice[1] = 4) =>
               (result.attackerLosses = 1 /\ result.defenderLosses = 0))
  /\ [][(/\ liveTask # Null
         /\ liveTask' = Null
         /\ call'.op = "updateArmyCounts"
         /\ liveTask.attackerArmies = 1
         /\ liveTask.defenderArmies = 5
         /\ liveTask.losses = [attackerLosses |-> 1, defenderLosses |-> 0]
         /\ BothSet
         /\ attacker.armies = 1
         /\ defender.armies = 5) =>
          /\ attacker'.armies = 0
          /\ defender'.armies = 5
          /\ isBattleOver'
          /\ getBattleWinner' = "defender"]_vars

C15_Witness ==
  /\ service = "App"
  /\ call.op = "updateArmyCounts"
  /\ call.args = <<1, 0>>
  /\ BothSet
  /\ attacker.initialArmies = 1
  /\ attacker.armies = 0
  /\ defender.initialArmies = 5
  /\ defender.armies = 5
  /\ isBattleOver
  /\ getBattleWinner = "defender"

\* C16: scenario C.  With attacker = 5 and defender = 3 and the dice [6,5,1]
\* against [6,3], the first pair goes to the defender (tie) and the second to the
\* attacker, so attackerLosses = 1 and defenderLosses = 1; applying that round
\* gives attacker = 4, defender = 2 and the battle is not over.
C16_ScenarioC ==
  /\ []((/\ RoundReturned
         /\ call.args = <<5, 3>>
         /\ result.attackerDice = <<6, 5, 1>>
         /\ result.defenderDice = <<6, 3>>) =>
          /\ Len(result.comparisons) = 2
          /\ result.comparisons[1].winner = "defender"
          /\ result.comparisons[2].winner = "attacker"
          /\ result.attackerLosses = 1
          /\ result.defenderLosses = 1)
  /\ [][(/\ liveTask # Null
         /\ liveTask' = Null
         /\ call'.op = "updateArmyCounts"
         /\ liveTask.attackerArmies = 5
         /\ liveTask.defenderArmies = 3
         /\ liveTask.losses = [attackerLosses |-> 1, defenderLosses |-> 1]
         /\ BothSet
         /\ attacker.armies = 5
         /\ defender.armies = 3) =>
          /\ attacker'.armies = 4
          /\ defender'.armies = 2
          /\ ~isBattleOver']_vars

C16_Witness ==
  /\ service = "App"
  /\ call.op = "updateArmyCounts"
  /\ call.args = <<1, 1>>
  /\ BothSet
  /\ attacker.initialArmies = 5
  /\ attacker.armies = 4
  /\ defender.initialArmies = 3
  /\ defender.armies = 2
  /\ ~isBattleOver

\* C19: a round is atomic.  From the moment a rollDice call has computed its
\* losses until they are subtracted, every step either is that subtraction (of
\* exactly those losses, from counts that are still the ones the round was
\* computed from) or leaves the engagement and the pending round alone.
C19_RoundAtomic ==
  [][(IF liveTask = Null THEN FALSE ELSE liveTask.losses # Null) =>
       \/ /\ liveTask' = Null
          /\ call'.op = "updateArmyCounts"
          /\ call'.thrown = NoError
          /\ attacker.armies = liveTask.attackerArmies
          /\ defender.armies = liveTask.defenderArmies
          /\ attacker'.armies = attacker.armies - liveTask.losses.attackerLosses
          /\ defender'.armies = defender.armies - liveTask.losses.defenderLosses
       \/ /\ attacker' = attacker
          /\ defender' = defender
          /\ currentScreen' = currentScreen
          /\ liveTask' # Null
          /\ liveTask'.losses = liveTask.losses]_vars

\* C20: no state leaks between engagements.  The completion callback of a roll
\* whose engagement was ended by withdraw or a reset changes no army count of an
\* engagement that has been set up since (both army counts chosen), and no army
\* count of such an engagement is ever below 0.
EngagementSetUp ==
  /\ BothSet
  /\ attacker.initialArmies >= 1
  /\ defender.initialArmies >= 1

C20_NoStateLeak ==
  /\ [](EngagementSetUp => (attacker.armies >= 0 /\ defender.armies >= 0))
  /\ [][(/\ staleTask # Null
         /\ staleTask' = Null
         /\ call'.op = "updateArmyCounts"
         /\ EngagementSetUp) =>
          (attacker' = attacker /\ defender' = defender)]_vars

\* C21: over is terminal.  In simulateCompleteBattle, once attackerArmies < 1 or
\* defenderArmies = 0 no further round is executed and both counts stay as they
\* are.  On the battle screen, while isBattleOver() is true no roll is started,
\* no round is executed and both army counts stay as they are, until attacker and
\* defender are cleared for a new engagement.
C21_OverIsTerminal ==
  /\ [][(pc = "loop" /\ (attackerArmies < 1 \/ defenderArmies = 0)) =>
          /\ attackerArmies' = attackerArmies
          /\ defenderArmies' = defenderArmies
          /\ numRounds' = numRounds]_vars
  /\ [][(service = "App" /\ currentScreen = "battle" /\ BothSet /\ isBattleOver) =>
          \/ /\ attacker' = attacker
             /\ defender' = defender
             /\ liveTask' = liveTask
          \/ /\ attacker' = Null
             /\ defender' = Null]_vars

\* C22: the battle always starts Active.  Whenever a setDefenderArmies call
\* switches GameService to the "battle" screen, attacker and defender are both
\* set with armies in 1..50, so isBattleOver() is false on entry.
C22_BattleStartsActive ==
  [][(/\ service = "GameService"
      /\ call'.op = "setDefenderArmies"
      /\ call'.thrown = NoError
      /\ currentScreen' = "battle") =>
       /\ attacker' # Null
       /\ defender' # Null
       /\ attacker'.armies \in MinArmyCount..MaxArmyCount
       /\ defender'.armies \in MinArmyCount..MaxArmyCount
       /\ ~isBattleOver']_vars

\* C26: attacker and defender are always different players.  In every state of
\* GameService where both are set, attacker.playerIndex differs from
\* defender.playerIndex.
C26_DistinctPlayers ==
  (service = "GameService" /\ BothSet) => attacker.playerIndex # defender.playerIndex

\* C23: the outcome is never ambiguous.  In every state simulateCompleteBattle
\* reaches from a0 >= 1 and d0 >= 1 by executing rounds and subtracting their
\* losses, attackerArmies < 1 and defenderArmies = 0 never hold together; a
\* returned winner "defender" has defenderArmies >= 1 and a returned winner
\* "attacker" has attackerArmies >= 1.
C23_OutcomeUnambiguous ==
  SimulationFromValid =>
    /\ ~(attackerArmies < 1 /\ defenderArmies = 0)
    /\ (pc = "returned" /\ call.thrown = NoError) =>
         /\ winner = "defender" => defenderArmies >= 1
         /\ winner = "attacker" => attackerArmies >= 1

C23_Witness ==
  /\ SimulationOf(1, 2)
  /\ pc = "returned"
  /\ call.thrown = NoError
  /\ winner = "defender"
  /\ attackerArmies = 0
  /\ defenderArmies = 2

\* C24: per-pair annotations.  In every result of a round, comparisons has
\* exactly min(|attackerDice|, |defenderDice|) entries, entry i records
\* attackerDice[i] and defenderDice[i], defenderLosses is the number of entries
\* with winner "attacker" and attackerLosses the number with winner "defender".
C24_PairAnnotations ==
  RoundReturned =>
    LET comparisons == result.comparisons
        entries == 1..Len(comparisons)
    IN /\ Len(comparisons) = Min(Len(result.attackerDice), Len(result.defenderDice))
       /\ \A i \in entries :
            /\ comparisons[i].attackerDie = result.attackerDice[i]
            /\ comparisons[i].defenderDie = result.defenderDice[i]
            /\ comparisons[i].winner \in {"attacker", "defender"}
       /\ result.defenderLosses =
            Cardinality({i \in entries : comparisons[i].winner = "attacker"})
       /\ result.attackerLosses =
            Cardinality({i \in entries : comparisons[i].winner = "defender"})

C24_Witness ==
  /\ RoundReturned
  /\ result.attackerDice = <<6, 3, 1>>
  /\ result.defenderDice = <<5, 3>>
  /\ Len(result.comparisons) = 2
  /\ result.comparisons[1].winner = "attacker"
  /\ result.comparisons[2].winner = "defender"
  /\ result.attackerLosses = 1
  /\ result.defenderLosses = 1

\* C25: excess dice are ignored.  The losses of a round depend only on the first
\* min(n, m) dice of each sorted roll: replacing a die that has no counterpart
\* by any value that keeps the roll sorted changes neither loss count.
SameLosses(first, second) ==
  /\ first.attackerLosses = second.attackerLosses
  /\ first.defenderLosses = second.defenderLosses

C25_ExcessDiceIgnored ==
  RoundReturned =>
    LET attackerDice == result.attackerDice
        defenderDice == result.defenderDice
        comparisonCount == Min(Len(attackerDice), Len(defenderDice))
    IN \A v \in 1..DieSides :
         /\ \A j \in (comparisonCount + 1)..Len(attackerDice) :
              LET replaced == [attackerDice EXCEPT ![j] = v]
              IN NonIncreasing(replaced) =>
                   SameLosses(compareDice(replaced, defenderDice), result)
         /\ \A j \in (comparisonCount + 1)..Len(defenderDice) :
              LET replaced == [defenderDice EXCEPT ![j] = v]
              IN NonIncreasing(replaced) =>
                   SameLosses(compareDice(attackerDice, replaced), result)

C25_Witness ==
  /\ RoundReturned
  /\ call.args = <<3, 1>>
  /\ result.attackerDice = <<5, 3, 1>>
  /\ result.defenderDice = <<4>>
  /\ result.attackerLosses = 0
  /\ result.defenderLosses = 1

\* C27: the animation phases are sequential.  While a battle screen stays
\* mounted, animationPhase changes only idle -> rolling -> showing-results ->
\* complete -> idle; canRoll() is true only while no rollDice call of the screen
\* is in flight, so a roll started under canRoll() is the only one; and every
\* rollDice call of the screen ends with the step that returns the phase to idle
\* and invokes onComplete, once.
PhaseOrder ==
  { <<"idle", "rolling">>, <<"rolling", "showing-results">>,
    <<"showing-results", "complete">>, <<"complete", "idle">> }

StaysMounted == currentScreen = "battle" /\ currentScreen' = "battle"

C27_PhasesSequential ==
  /\ [](canRoll => liveTask = Null)
  /\ [][(StaysMounted /\ battleState'.animationPhase # battleState.animationPhase) =>
          <<battleState.animationPhase, battleState'.animationPhase>> \in PhaseOrder]_vars
  /\ [][(liveTask = Null /\ liveTask' # Null) =>
          (canRoll /\ battleState'.animationPhase = "rolling")]_vars
  /\ [][(StaysMounted /\ liveTask # Null /\ liveTask' # liveTask) =>
          IF liveTask' = Null
          THEN /\ liveTask.pos = "complete"
               /\ battleState.animationPhase = "complete"
               /\ battleState'.animationPhase = "idle"
               /\ call'.op = "updateArmyCounts"
               /\ call'.args = <<liveTask.losses.attackerLosses,
                                 liveTask.losses.defenderLosses>>
          ELSE /\ <<liveTask.pos, liveTask'.pos>> \in PhaseOrder
               /\ battleState'.animationPhase = liveTask'.pos]_vars

\* C28: the legacy script and the services agree.  For the army counts and the
\* dice values of every round BattleService.executeBattleRound returns,
\* main.js rollDice uses the same dice counts, compares the same sorted rolls and
\* computes the same losses; and for the army counts of every GameService state
\* with attacker and defender set, main.js updateBattleDisplay declares the
\* battle ended exactly when isBattleOver() is true, with the winner
\* getBattleWinner() reports.
Reversed(s) == [i \in 1..Len(s) |-> s[Len(s) + 1 - i]]

C28_LegacyEquivalence ==
  /\ RoundReturned =>
       LET legacy == main_rollDice(call.args[1], call.args[2],
                                   Reversed(result.attackerDice),
                                   Reversed(result.defenderDice))
       IN /\ legacy.attackerDiceCount = getAttackerDiceCount(call.args[1])
          /\ legacy.defenderDiceCount = getDefenderDiceCount(call.args[2])
          /\ legacy.attackerDiceCount = Len(result.attackerDice)
          /\ legacy.defenderDiceCount = Len(result.defenderDice)
          /\ legacy.attackerRolls = result.attackerDice
          /\ legacy.defenderRolls = result.defenderDice
          /\ legacy.attackerLosses = result.attackerLosses
          /\ legacy.defenderLosses = result.defenderLosses
  /\ (service = "GameService" /\ BothSet) =>
       LET display == main_updateBattleDisplay(attacker.armies, defender.armies)
       IN /\ display.ended = isBattleOver
          /\ display.winner = getBattleWinner

C28_Witness ==
  /\ RoundReturned
  /\ call.args = <<4, 2>>
  /\ result.attackerDice = <<4, 4, 2>>
  /\ result.defenderDice = <<4, 1>>
  /\ result.attackerLosses = 1
  /\ result.defenderLosses = 1

\* C29: withdraw ends the engagement.  A withdraw() call throws and changes
\* nothing when isGameActive is false; otherwise it sets attacker and defender to
\* null and the screen to "attacker-selection", leaves players and isGameActive
\* as they are, and afterwards isBattleOver() is false and getBattleWinner() is
\* null.
C29_WithdrawEndsEngagement ==
  [][call'.op = "withdraw" =>
       IF ~isGameActive
       THEN /\ call'.thrown # NoError
            /\ UNCHANGED gsVars
       ELSE /\ call'.thrown = NoError
            /\ attacker' = Null
            /\ defender' = Null
            /\ currentScreen' = "attacker-selection"
            /\ players' = players
            /\ isGameActive' = isGameActive
            /\ ~isBattleOver'
            /\ getBattleWinner' = "null"]_vars

C29_Witness ==
  /\ call.op = "withdraw"
  /\ call.thrown = NoError
  /\ attacker = Null
  /\ defender = Null
  /\ currentScreen = "attacker-selection"
  /\ isGameActive
  /\ Len(players) = MinPlayers

\* C30: updateArmyCounts changes nothing but the two armies fields.  A call with
\* attacker and defender set leaves players, currentScreen, isGameActive and
\* every field of attacker and defender other than armies as they are; a call
\* with attacker or defender not set throws and changes nothing.
C30_UpdateArmyCountsFrame ==
  [][call'.op = "updateArmyCounts" =>
       IF attacker = Null \/ defender = Null
       THEN /\ call'.thrown # NoError
            /\ UNCHANGED gsVars
       ELSE /\ call'.thrown = NoError
            /\ players' = players
            /\ currentScreen' = currentScreen
            /\ isGameActive' = isGameActive
            /\ attacker' = [attacker EXCEPT !.armies = attacker'.armies]
            /\ defender' = [defender EXCEPT !.armies = defender'.armies]]_vars

C30_Witness ==
  /\ service = "GameService"
  /\ call.op = "updateArmyCounts"
  /\ call.args = <<1, 2>>
  /\ call.thrown = NoError
  /\ BothSet
  /\ currentScreen = "battle"
  /\ attacker.initialArmies = 2
  /\ attacker.armies = 1
  /\ defender.initialArmies = 2
  /\ defender.armies = 0

====
